---- MODULE Spec2Model ----
(***************************************************************************)
(* Call-center metrics dashboard: the Express server (src/server/index.js) *)
(* with its filterData / calculateMetrics / calculateAgentMetrics, and the *)
(* mobx-state-tree ConversationStore (src/app/stores/ConversationStore.ts) *)
(* with its filteredConversations view and metric views.                   *)
(*                                                                         *)
(* Numbers.  Timestamps are epoch milliseconds; the sample dates lie in    *)
(* the first days of 1970 so that they fit TLC's integers.  A metric the   *)
(* server rounds with Math.round(x * s) / s is kept as the integer         *)
(* Math.round(x * s): hundredths for money and interruptions, tenths for   *)
(* the rates, units for latencies and handle time.  A metric the store     *)
(* leaves unrounded is kept as an exact fraction [num, den].  Quotients are *)
(* exact where JavaScript computes them in double precision.               *)
(*                                                                         *)
(* Two dashboards exist in the repository.  The legacy one asks the server *)
(* for /api/metrics and /api/agent-metrics and holds no store; the current *)
(* one (app/page.tsx) loads /api/conversations into the store and computes *)
(* every metric in its views.  A behaviour runs one of the two.            *)
(***************************************************************************)
EXTENDS Integers, Sequences, FiniteSets, TLC

VARIABLES
    conversationsData,  \* server: the records loaded at start-up (index.js:15-22)
    tzOffsetHours,      \* the local time zone of the machine: the server process
                        \* (getHours) or the browser of the store dashboard (dayjs)
    dashboard,          \* which dashboard build runs: "legacy" (server-backed) or "store"
    response,           \* server: the last response sent by a metrics endpoint
    store,              \* ConversationStore: conversations, filters, loading, error
    inflight,           \* store: loadConversations calls waiting for their response
    legacy              \* legacy Dashboard component: its state, refs, timer and requests

vars == <<conversationsData, tzOffsetHours, dashboard, response, store, inflight, legacy>>

-----------------------------------------------------------------------------
(* Bounds *)

MaxRecords == 2
MaxLoads == 1

-----------------------------------------------------------------------------
(* Optional values: undefined is <<>>, a present value v is <<v>>. *)

None == <<>>
Some(v) == <<v>>
IsSome(o) == o # <<>>
Get(o) == o[1]

RECURSIVE SeqsUpTo(_, _)
SeqsUpTo(S, n) ==
    IF n = 0 THEN {<<>>}
    ELSE LET shorter == SeqsUpTo(S, n - 1)
         IN  shorter \cup {Append(s, x) : s \in {t \in shorter : Len(t) = n - 1}, x \in S}

Range(s) == {s[i] : i \in 1..Len(s)}

\* Array.prototype.includes
Includes(arr, v) == \E i \in 1..Len(arr) : arr[i] = v

-----------------------------------------------------------------------------
(* Time *)

MsPerSecond == 1000
MsPerHour == 3600000
MsPerDay == 86400000

\* A date-only string "YYYY-MM-DD" is kept as its three numeric fields; a string
\* that is no date is kept as fields no calendar has.
DateString(y, m, d) == [year |-> y, month |-> m, day |-> d]
IsValidDate(ds) == ds.month \in 1..12 /\ ds.day \in 1..31

\* Days between 1970-01-01 and the civil date (proleptic Gregorian calendar).
EpochDay(ds) ==
    LET y   == IF ds.month <= 2 THEN ds.year - 1 ELSE ds.year
        era == y \div 400
        yoe == y - era * 400
        mp  == IF ds.month > 2 THEN ds.month - 3 ELSE ds.month + 9
        doy == (153 * mp + 2) \div 5 + ds.day - 1
        doe == yoe * 365 + yoe \div 4 - yoe \div 100 + doy
    IN  era * 146097 + doe - 719468

\* new Date(ds + 'T00:00:00.000Z').getTime(), for a valid ds
StartOfDayUTC(ds) == EpochDay(ds) * MsPerDay
\* Variant: the end of the range anchored at 00:00:00.000 UTC, like its start.
EndOfDayAsMidnight(ds) == EpochDay(ds) * MsPerDay

\* new Date(ds + 'T23:59:59.999Z').getTime(), for a valid ds
EndOfDayUTC(ds) == EpochDay(ds) * MsPerDay + 23 * MsPerHour + 59 * 60 * MsPerSecond
                     + 59 * MsPerSecond + 999

\* new Date(t).getHours(): the hour of day in the process's local time zone
LocalHour(t, tz) == ((t + tz * MsPerHour) \div MsPerHour) % 24

D0 == DateString(1970, 1, 1)
D1 == DateString(1970, 1, 2)
D2 == DateString(1970, 1, 3)
BadDate == DateString(0, 0, 0)

At(ds, h, mi, s, ms) ==
    EpochDay(ds) * MsPerDay + h * MsPerHour + mi * 60 * MsPerSecond + s * MsPerSecond + ms

StartTimes ==
    { At(D0, 23, 59, 59, 999), At(D1, 0, 0, 0, 0), At(D1, 12, 0, 0, 0),
      At(D1, 23, 59, 59, 0), At(D1, 23, 59, 59, 999), At(D2, 0, 0, 0, 0) }

TzOffsets == {0, 5}

-----------------------------------------------------------------------------
(* Conversation records (ConversationStore.ts:5-28, data/conversations.json) *)

Agents == {"a1", "a2"}
Statuses == {"success", "dropped", "transfer", "busy", "no_answer"}
CallTypes == {"inbound", "outbound"}

Stats(llm, tts, n) == [llmLatency |-> llm, ttsLatency |-> tts, interruptions |-> n]

\* A record without its id.
Rec(agent, startTime, duration, cost, status, type, stats) ==
    [agent |-> agent, startTime |-> startTime, duration |-> duration, cost |-> cost,
     status |-> status, callInfo |-> [type |-> type, stats |-> stats]]

\* Single records that vary in every field a filter reads.
FilterVariants ==
    { Rec(a, t, d, 10, "success", ty, None) :
        a \in Agents, t \in StartTimes, d \in {60, 120, 300}, ty \in CallTypes }

\* Single records that vary in every field a metric reads.
MetricVariants ==
    { Rec("a1", At(D1, 12, 0, 0, 0), d, c, s, "inbound", st) :
        d \in {0, 90}, c \in {20}, s \in Statuses,
        st \in {None, Some(Stats(400, 150, 3))} }

\* The records that collections of more than one record are drawn from.
Sample ==
    { Rec("a1", At(D1, 0, 0, 0, 0),      60, 10, "success",   "inbound",  Some(Stats(400, 150, 3))),
      Rec("a1", At(D1, 23, 59, 59, 0),  150, 20, "transfer",  "outbound", None),
      Rec("a2", At(D2, 0, 0, 0, 0),       0,  5, "dropped",   "inbound",  Some(Stats(301, 101, 0))),
      Rec("a2", At(D1, 23, 59, 59, 999), 300, 15, "busy",     "outbound", None),
      Rec("a1", At(D0, 23, 59, 59, 999),  0,  8, "no_answer", "inbound",  None) }

\* Scenario A of the specification (section 8).
ScenarioA ==
    << Rec("a1", At(D1, 12, 0, 0, 0), 60, 10, "success",  "inbound",  None),
       Rec("a1", At(D1, 12, 0, 0, 0), 30, 20, "transfer", "inbound",  None),
       Rec("a2", At(D1, 12, 0, 0, 0),  0,  5, "dropped",  "inbound",  None),
       Rec("a2", At(D1, 12, 0, 0, 0), 90, 15, "success",  "inbound",  None) >>

\* The id of a record is unique: its position in the loaded file.
WithIds(s) ==
    [i \in 1..Len(s) |->
        [id |-> i, agent |-> s[i].agent, startTime |-> s[i].startTime,
         duration |-> s[i].duration, cost |-> s[i].cost, status |-> s[i].status,
         callInfo |-> s[i].callInfo]]

Collections ==
    { WithIds(s) : s \in SeqsUpTo(Sample, MaxRecords) }
      \cup { WithIds(<<r>>) : r \in FilterVariants \cup MetricVariants }
      \cup { WithIds(ScenarioA) }

-----------------------------------------------------------------------------
(* Server: filterData (index.js:25-83) *)

\* req.query as filterData reads it.  'dateRange[start]' and 'dateRange[end]' are
\* the flattened keys, dateRange the nested object; every key may be absent.
Query(flatStart, flatEnd, nested, agents, callTypes, timeRanges) ==
    [flatStart |-> flatStart, flatEnd |-> flatEnd, dateRange |-> nested,
     agents |-> agents, callTypes |-> callTypes, timeRanges |-> timeRanges]

\* The value of a list key of req.query: an array of strings, or one string.
ArrayParam(items) == [isArray |-> TRUE, items |-> items, text |-> ""]
StringParam(text) == [isArray |-> FALSE, items |-> <<>>, text |-> text]

\* value.length > 0, of an array or of a string
HasLength(value) == IF value.isArray THEN Len(value.items) > 0 ELSE value.text # ""

\* index.js:53, 62, 71: Array.isArray(value) ? value : [value]
ToArray(value) == IF value.isArray THEN value.items ELSE <<value.text>>

\* index.js:29: filters['dateRange[start]'] || filters.dateRange?.start
dateRangeStart(filters) ==
    IF IsSome(filters.flatStart) THEN filters.flatStart
    ELSE IF IsSome(filters.dateRange) THEN Get(filters.dateRange).start
    ELSE None

\* index.js:30: filters['dateRange[end]'] || filters.dateRange?.end
dateRangeEnd(filters) ==
    IF IsSome(filters.flatEnd) THEN filters.flatEnd
    ELSE IF IsSome(filters.dateRange) THEN Get(filters.dateRange).end
    ELSE None

\* index.js:39-40: a comparison with an Invalid Date's NaN is false
isInRange(call, start, end) ==
    /\ IsValidDate(start)
    /\ IsValidDate(end)
    /\ call.startTime >= StartOfDayUTC(start)
    /\ call.startTime <= EndOfDayUTC(end)

\* Variant: the upper bound of an hour interval excluded.
HourInRangeHalfOpen(hour, range) ==
    CASE range = "0-6"   -> hour >= 0 /\ hour < 6
      [] range = "6-12"  -> hour >= 6 /\ hour < 12
      [] range = "12-18" -> hour >= 12 /\ hour < 18
      [] range = "18-24" -> hour >= 18 /\ hour < 24
      [] OTHER           -> FALSE

\* index.js:76-77: range.split('-').map(Number) and the two comparisons; a token
\* that does not split into two numbers compares false.
HourInRange(hour, range) ==
    CASE range = "0-6"   -> hour >= 0 /\ hour <= 6
      [] range = "6-12"  -> hour >= 6 /\ hour <= 12
      [] range = "12-18" -> hour >= 12 /\ hour <= 18
      [] range = "18-24" -> hour >= 18 /\ hour <= 24
      [] OTHER           -> FALSE

\* Variant: the date pass runs although a bound is missing, against an Invalid Date.
ByDateAlways(data, filters) ==
    SelectSeq(data, LAMBDA call :
        /\ IsSome(dateRangeStart(filters))
        /\ IsSome(dateRangeEnd(filters))
        /\ isInRange(call, Get(dateRangeStart(filters)), Get(dateRangeEnd(filters))))

ByDate(data, filters) ==
    IF IsSome(dateRangeStart(filters)) /\ IsSome(dateRangeEnd(filters))
    THEN SelectSeq(data, LAMBDA call :
            isInRange(call, Get(dateRangeStart(filters)), Get(dateRangeEnd(filters))))
    ELSE data

\* Variant: an empty agents list is applied and matches nothing.
ByAgentsEmptyMatchesNothing(data, filters) ==
    IF IsSome(filters.agents)
    THEN SelectSeq(data, LAMBDA call : Includes(ToArray(Get(filters.agents)), call.agent))
    ELSE data

ByAgents(data, filters) ==
    IF IsSome(filters.agents) /\ HasLength(Get(filters.agents))
    THEN SelectSeq(data, LAMBDA call : Includes(ToArray(Get(filters.agents)), call.agent))
    ELSE data

ByCallTypes(data, filters) ==
    IF IsSome(filters.callTypes) /\ HasLength(Get(filters.callTypes))
    THEN SelectSeq(data, LAMBDA call :
            Includes(ToArray(Get(filters.callTypes)), call.callInfo.type))
    ELSE data

ByTimeRanges(data, filters, tz) ==
    IF IsSome(filters.timeRanges) /\ HasLength(Get(filters.timeRanges))
    THEN SelectSeq(data, LAMBDA call :
            LET timeRangeArray == ToArray(Get(filters.timeRanges))
            IN  \E i \in 1..Len(timeRangeArray) :
                    HourInRange(LocalHour(call.startTime, tz), timeRangeArray[i]))
    ELSE data

\* Variant: the result is returned newest position first.
filterDataReversed(data, filters, tz) ==
    LET kept == ByTimeRanges(ByCallTypes(ByAgents(ByDate(data, filters), filters), filters),
                             filters, tz)
    IN  [i \in 1..Len(kept) |-> kept[Len(kept) + 1 - i]]

filterData(data, filters, tz) ==
    ByTimeRanges(ByCallTypes(ByAgents(ByDate(data, filters), filters), filters), filters, tz)

\* Variant: filterData filters the caller's array in place.
DataAfterFilterDataInPlace(data, filters, tz) == filterData(data, filters, tz)

\* index.js:26: filterData works on a copy, the caller's array is left as it was.
DataAfterFilterData(data, filters, tz) == data

-----------------------------------------------------------------------------
(* Arithmetic *)

\* Array.prototype.reduce((sum, x) => sum + x, 0) over the numbers of an array
RECURSIVE SumSeq(_)
SumSeq(numbers) ==
    IF numbers = <<>> THEN 0 ELSE Head(numbers) + SumSeq(Tail(numbers))

\* Math.round(p / q) for q > 0: the nearest integer, a half rounds up.
RoundDiv(p, q) == (2 * p + q) \div (2 * q)

\* An unrounded quotient.
Frac(p, q) == [num |-> p, den |-> q]
Zero == Frac(0, 1)
FracEq(x, y) == x.num * y.den = y.num * x.den
FracAdd(x, y) == Frac(x.num * y.den + y.num * x.den, x.den * y.den)

-----------------------------------------------------------------------------
(* Server: calculateMetrics (index.js:86-147) *)

\* Variant: every call counts as answered, whatever its duration.
callsWithDurationOrNone(data) == data

callsWithDuration(data) == SelectSeq(data, LAMBDA call : call.duration > 0)
successfulCalls(data) == SelectSeq(data, LAMBDA call : call.status = "success")
transferredCalls(data) == SelectSeq(data, LAMBDA call : call.status = "transfer")
droppedCalls(data) ==
    SelectSeq(data, LAMBDA call : call.status = "dropped" \/ call.status = "no_answer")
busyCalls(data) == SelectSeq(data, LAMBDA call : call.status = "busy")
\* Variant: a call without stats is kept as a sample of zeros.
callsWithStatsZeroFilled(data) ==
    [i \in 1..Len(data) |->
        IF IsSome(data[i].callInfo.stats) THEN data[i]
        ELSE [data[i] EXCEPT !.callInfo.stats = Some(Stats(0, 0, 0))]]

callsWithStats(data) == SelectSeq(data, LAMBDA call : IsSome(call.callInfo.stats))

SumCost(data) == SumSeq([i \in 1..Len(data) |-> data[i].cost])
SumDuration(data) == SumSeq([i \in 1..Len(data) |-> data[i].duration])
SumInterruptions(data) ==
    SumSeq([i \in 1..Len(data) |-> Get(data[i].callInfo.stats).interruptions])
SumLLMLatency(data) ==
    SumSeq([i \in 1..Len(data) |-> Get(data[i].callInfo.stats).llmLatency])
SumTTSLatency(data) ==
    SumSeq([i \in 1..Len(data) |-> Get(data[i].callInfo.stats).ttsLatency])

\* index.js:106: busy calls plus every call that is neither successful, transferred
\* nor dropped
failureCount(data) ==
    Len(busyCalls(data))
      + (Len(data) - Len(successfulCalls(data)) - Len(transferredCalls(data))
           - Len(droppedCalls(data)))

\* Variant: a rate over no calls reported as 100.
RateTenthsFullWhenEmpty(count, totalCalls) ==
    IF totalCalls > 0 THEN RoundDiv(count * 1000, totalCalls) ELSE 1000

\* Math.round((count / totalCalls) * 100 * 10), the rate in tenths of a percent
RateTenths(count, totalCalls) ==
    IF totalCalls > 0 THEN RoundDiv(count * 1000, totalCalls) ELSE 0

\* Variant: the guard is missing; 0 / 0 is no number and stands as -1.
MeanScaledUnguarded(sum, count, scale) ==
    IF count > 0 THEN RoundDiv(sum * scale, count) ELSE -1

\* Math.round((sum / count) * scale), 0 when the guard count > 0 fails
MeanScaled(sum, count, scale) ==
    IF count > 0 THEN RoundDiv(sum * scale, count) ELSE 0

calculateMetrics(data) ==
    LET totalCalls    == Len(data)
        totalCost     == SumCost(data)
        totalDuration == SumDuration(callsWithDuration(data))
        withStats     == callsWithStats(data)
    IN  [ avgCostPerCall  |-> MeanScaled(totalCost, totalCalls, 100),
          avgCostPerMin   |-> IF totalDuration > 0
                              THEN RoundDiv(totalCost * 60 * 100, totalDuration) ELSE 0,
          successRate     |-> RateTenths(Len(successfulCalls(data)), totalCalls),
          failureRate     |-> RateTenths(failureCount(data), totalCalls),
          transferRate    |-> RateTenths(Len(transferredCalls(data)), totalCalls),
          abandonmentRate |-> RateTenths(Len(droppedCalls(data)), totalCalls),
          avgInterruptions |-> MeanScaled(SumInterruptions(withStats), Len(withStats), 100),
          avgLLMLatency   |-> MeanScaled(SumLLMLatency(withStats), Len(withStats), 1),
          avgTTSLatency   |-> MeanScaled(SumTTSLatency(withStats), Len(withStats), 1),
          avgTotalLatency |-> MeanScaled(SumLLMLatency(withStats) + SumTTSLatency(withStats),
                                         Len(withStats), 1),
          firstCallResolutionRate |-> RateTenths(Len(successfulCalls(data)), totalCalls),
          avgCostPerSuccessfulCall |->
              MeanScaled(SumCost(successfulCalls(data)), Len(successfulCalls(data)), 100),
          avgHandleTime   |-> MeanScaled(totalDuration, Len(callsWithDuration(data)), 1),
          totalCalls      |-> totalCalls,
          totalCost       |-> totalCost * 100 ]

-----------------------------------------------------------------------------
(* Server: calculateAgentMetrics (index.js:150-159) *)

\* _.groupBy(data, 'agent'): one pass over data, each record appended to the group
\* of its agent, a group created on the first record of its agent.
RECURSIVE groupByAgent(_, _)
groupByAgent(data, groups) ==
    IF data = <<>> THEN groups
    ELSE LET call == Head(data)
             key  == call.agent
         IN  groupByAgent(Tail(data),
                IF key \in DOMAIN groups
                THEN [groups EXCEPT ![key] = Append(@, call)]
                ELSE groups @@ (key :> <<call>>))

EmptyObject == [k \in {} |-> <<>>]

\* Variant: one entry for every known agent, with or without records.
calculateAgentMetricsEveryAgent(data) ==
    [agent \in Agents |-> calculateMetrics(SelectSeq(data, LAMBDA call : call.agent = agent))]

calculateAgentMetrics(data) ==
    LET agentGroups == groupByAgent(data, EmptyObject)
    IN  [agent \in DOMAIN agentGroups |-> calculateMetrics(agentGroups[agent])]

-----------------------------------------------------------------------------
(* Requests *)

DateQueries ==
    { <<None, None, None>>,
      <<Some(D1), None, None>>,
      <<None, Some(D1), None>>,
      <<Some(D1), Some(D1), None>>,
      <<Some(D1), Some(D2), None>>,
      <<None, None, Some([start |-> Some(D2), end |-> Some(D2)])>> }

AgentQueries ==
    {None, Some(ArrayParam(<<>>)), Some(ArrayParam(<<"a1">>)), Some(ArrayParam(<<"a1", "a2">>))}
CallTypeQueries ==
    {None, Some(ArrayParam(<<"inbound">>)), Some(ArrayParam(<<"inbound", "outbound">>))}
TimeRangeQueries ==
    {None, Some(ArrayParam(<<"0-6">>)), Some(ArrayParam(<<"0-6", "18-24">>))}

Queries ==
    { Query(d[1], d[2], d[3], a, c, t) :
        d \in DateQueries, a \in AgentQueries, c \in CallTypeQueries, t \in TimeRangeQueries }

\* The queries the per-agent breakdown is asked with.
GroupingQueries == { q \in Queries : q.callTypes = None /\ q.timeRanges = None }

NoResponse == [endpoint |-> "none"]

-----------------------------------------------------------------------------
(* Store: filteredConversations (ConversationStore.ts:105-147) *)

NoFilters == [dateRange |-> None, agents |-> <<>>, callTypes |-> <<>>, timeRanges |-> <<>>]

\* ConversationStore.create({conversations: [], filters: {}, loading: false})
InitialStore ==
    [conversations |-> <<>>, filters |-> NoFilters, loading |-> FALSE, error |-> None]

\* ConversationStore.ts:110-114: new Date(s).getTime() of a date-only string is
\* 00:00:00.000 UTC of that day, for the start and for the end alike
StoreInDateRange(conv, range) ==
    /\ IsValidDate(range.start)
    /\ IsValidDate(range.end)
    /\ conv.startTime >= StartOfDayUTC(range.start)
    /\ conv.startTime <= StartOfDayUTC(range.end)

\* Variant: the medium bucket closed at 300 seconds.
DurationInRangeClosed(duration, range) ==
    CASE range = "short"  -> duration < 120
      [] range = "medium" -> duration >= 120 /\ duration <= 300
      [] range = "long"   -> duration >= 300
      [] OTHER            -> TRUE

\* ConversationStore.ts:136-141
DurationInRange(duration, range) ==
    CASE range = "short"  -> duration < 120
      [] range = "medium" -> duration >= 120 /\ duration < 300
      [] range = "long"   -> duration >= 300
      [] OTHER            -> TRUE

StoreByDate(convs, filters) ==
    IF IsSome(filters.dateRange)
    THEN SelectSeq(convs, LAMBDA conv : StoreInDateRange(conv, Get(filters.dateRange)))
    ELSE convs

StoreByAgents(convs, filters) ==
    IF Len(filters.agents) > 0
    THEN SelectSeq(convs, LAMBDA conv : Includes(filters.agents, conv.agent))
    ELSE convs

StoreByCallTypes(convs, filters) ==
    IF Len(filters.callTypes) > 0
    THEN SelectSeq(convs, LAMBDA conv : Includes(filters.callTypes, conv.callInfo.type))
    ELSE convs

\* Variant: every listed bucket must match instead of some.
StoreByTimeRangesEvery(convs, filters) ==
    IF Len(filters.timeRanges) > 0
    THEN SelectSeq(convs, LAMBDA conv :
            \A i \in 1..Len(filters.timeRanges) :
                DurationInRange(conv.duration, filters.timeRanges[i]))
    ELSE convs

StoreByTimeRanges(convs, filters) ==
    IF Len(filters.timeRanges) > 0
    THEN SelectSeq(convs, LAMBDA conv :
            \E i \in 1..Len(filters.timeRanges) :
                DurationInRange(conv.duration, filters.timeRanges[i]))
    ELSE convs

filteredConversations(self) ==
    StoreByTimeRanges(
        StoreByCallTypes(
            StoreByAgents(StoreByDate(self.conversations, self.filters), self.filters),
            self.filters),
        self.filters)

-----------------------------------------------------------------------------
(* Store: the metric views (ConversationStore.ts:149-298) *)

\* (count / filtered.length) * 100, 0 for an empty set
StoreRate(count, filtered) ==
    IF Len(filtered) = 0 THEN Zero ELSE Frac(count * 100, Len(filtered))

StoreMean(sum, count) == IF count = 0 THEN Zero ELSE Frac(sum, count)

storeFailureCount(filtered) ==
    Len(SelectSeq(filtered, LAMBDA conv :
            conv.status = "dropped" \/ conv.status = "no_answer"))

storeAbandonmentCount(filtered) ==
    Len(SelectSeq(filtered, LAMBDA conv :
            conv.status = "busy" \/ conv.status = "no_answer"))

\* ConversationStore.ts:167-172
successRate(self) ==
    LET filtered == filteredConversations(self)
    IN  StoreRate(Len(successfulCalls(filtered)), filtered)

\* Variant: the resolution rate taken over all conversations, filtered or not.
firstCallResolutionRateUnfiltered(self) ==
    StoreRate(Len(successfulCalls(self.conversations)), self.conversations)

\* ConversationStore.ts:240-243: return this.successRate
firstCallResolutionRate(self) == successRate(self)

metrics(self) ==
    LET filtered  == filteredConversations(self)
        withStats == callsWithStats(filtered)
        successes == successfulCalls(filtered)
    IN  [ avgCostPerCall  |-> StoreMean(SumCost(filtered), Len(filtered)),
          avgCostPerMin   |-> IF Len(filtered) = 0 THEN Zero
                              ELSE IF SumDuration(filtered) > 0
                                   THEN Frac(SumCost(filtered) * 60, SumDuration(filtered))
                                   ELSE Zero,
          successRate     |-> successRate(self),
          failureRate     |-> StoreRate(storeFailureCount(filtered), filtered),
          transferRate    |-> StoreRate(Len(transferredCalls(filtered)), filtered),
          abandonmentRate |-> StoreRate(storeAbandonmentCount(filtered), filtered),
          avgInterruptions |-> StoreMean(SumInterruptions(withStats), Len(withStats)),
          avgLLMLatency   |-> StoreMean(SumLLMLatency(withStats), Len(withStats)),
          avgTTSLatency   |-> StoreMean(SumTTSLatency(withStats), Len(withStats)),
          avgTotalLatency |-> StoreMean(SumLLMLatency(withStats) + SumTTSLatency(withStats),
                                        Len(withStats)),
          firstCallResolutionRate |-> firstCallResolutionRate(self),
          avgCostPerSuccessfulCall |-> StoreMean(SumCost(successes), Len(successes)),
          avgHandleTime   |-> StoreMean(SumDuration(filtered), Len(filtered)),
          totalCalls      |-> Len(filtered),
          totalCost       |-> SumCost(filtered) ]

-----------------------------------------------------------------------------
(* Charts modal: the agentGroups loop (AgentChartsModal, useMemo) *)

\* Variant: the record that creates a group is not pushed into it.
RECURSIVE modalAgentGroupsDropFirst(_, _)
modalAgentGroupsDropFirst(convs, agentGroups) ==
    IF convs = <<>> THEN agentGroups
    ELSE LET conv == Head(convs)
         IN  modalAgentGroupsDropFirst(Tail(convs),
                IF conv.agent \in DOMAIN agentGroups
                THEN [agentGroups EXCEPT ![conv.agent] = Append(@, conv)]
                ELSE agentGroups @@ (conv.agent :> <<>>))

\* forEach(conv => { if (!agentGroups[conv.agent]) agentGroups[conv.agent] = [];
\*                   agentGroups[conv.agent].push(conv); })
RECURSIVE modalAgentGroups(_, _)
modalAgentGroups(convs, agentGroups) ==
    IF convs = <<>> THEN agentGroups
    ELSE LET conv    == Head(convs)
             created == IF conv.agent \in DOMAIN agentGroups
                        THEN agentGroups
                        ELSE agentGroups @@ (conv.agent :> <<>>)
         IN  modalAgentGroups(Tail(convs),
                [created EXCEPT ![conv.agent] = Append(@, conv)])

\* The totalCalls column of the modal's per-agent metrics.
modalTotalCalls(self) ==
    LET agentGroups == modalAgentGroups(filteredConversations(self), EmptyObject)
    IN  [agent \in DOMAIN agentGroups |-> Len(agentGroups[agent])]

-----------------------------------------------------------------------------
(* Inputs of the store's actions *)

StoreDateArgs ==
    { <<None, None>>, <<Some(D1), None>>, <<Some(D1), Some(D1)>>, <<Some(D1), Some(D2)>> }
StoreAgentArgs == { <<>>, <<"a1">>, <<"a1", "a2">> }
StoreCallTypeArgs == { <<>>, <<"inbound">>, <<"inbound", "outbound">> }
StoreTimeRangeArgs ==
    { <<>>, <<"short">>, <<"medium">>, <<"long">>, <<"short", "medium", "long">>, <<"0-6">> }

-----------------------------------------------------------------------------
(* Legacy dashboard: the Dashboard component that asks the server for its   *)
(* metrics (fetchMetrics and the debounced effect on filters)               *)

Debounce == 300
\* Time advances in steps of TickMs.
TickMs == 100

\* The filters object the legacy FilterPanel sends: dateRange first, then each
\* list only when it is not empty; a key that was not set is None.
LegacyFilters(dateRange, agents, callTypes, timeRanges) ==
    [dateRange |-> dateRange, agents |-> agents, callTypes |-> callTypes,
     timeRanges |-> timeRanges]

\* useState<Filters>({})
EmptyFilters == LegacyFilters(None, None, None, None)

\* A JSON text is kept as the members it writes, in the order it writes them.
\* The empty string '' is no JSON text.
Member(key, dates, items) == [key |-> key, dates |-> dates, items |-> items]
EmptyString == [braces |-> FALSE, members |-> <<>>]

\* JSON.stringify(filters): the keys in insertion order, undefined ones left out
JSONStringify(filters) ==
    [braces  |-> TRUE,
     members |->
        (IF IsSome(filters.dateRange)
         THEN <<Member("dateRange", <<Get(filters.dateRange).start,
                                      Get(filters.dateRange).end>>, <<>>)>>
         ELSE <<>>)
        \o (IF IsSome(filters.agents)
            THEN <<Member("agents", <<>>, Get(filters.agents))>> ELSE <<>>)
        \o (IF IsSome(filters.callTypes)
            THEN <<Member("callTypes", <<>>, Get(filters.callTypes))>> ELSE <<>>)
        \o (IF IsSome(filters.timeRanges)
            THEN <<Member("timeRanges", <<>>, Get(filters.timeRanges))>> ELSE <<>>)]

\* fetchMetrics, lines 92-109: a list goes into the query only when it is set
\* and not empty
ListParam(list) ==
    IF IsSome(list) /\ Len(Get(list)) > 0 THEN Some(ArrayParam(Get(list))) ELSE None

\* fetchMetrics, lines 92-109: the params object of the request
queryParams(filtersToUse) ==
    Query(IF IsSome(filtersToUse.dateRange)
          THEN Some(Get(filtersToUse.dateRange).start) ELSE None,
          IF IsSome(filtersToUse.dateRange)
          THEN Some(Get(filtersToUse.dateRange).end) ELSE None,
          None,
          ListParam(filtersToUse.agents),
          ListParam(filtersToUse.callTypes),
          ListParam(filtersToUse.timeRanges))

\* The component after its first render and the first run of the effect: the
\* timer for the initial filters is set and its cleanup is registered.
MountedDashboard ==
    [metrics        |-> None,
     filters        |-> EmptyFilters,
     loading        |-> TRUE,
     error          |-> None,
     lastFiltersRef |-> EmptyString,
     \* the timer behind timeoutRef.current while it has neither fired nor been
     \* cleared: the filters of its closure and the time left
     timer          |-> Some([filters |-> EmptyFilters, remaining |-> Debounce]),
     \* whether the last run of the effect returned its cleanup function
     cleanup        |-> TRUE,
     \* the fetchMetrics calls waiting at their await, oldest first
     requests       |-> <<>>,
     \* time since the last change of filters, up to Debounce
     sinceChange    |-> 0,
     \* the filters before the last change
     previous       |-> EmptyFilters]

RemoveAt(s, i) == SubSeq(s, 1, i - 1) \o SubSeq(s, i + 1, Len(s))

PanelAlwaysRendered == TRUE

\* The FilterPanel, the only caller of handleFiltersChange, is rendered past the
\* loading, error and no-data returns of the component (part_001:488-513, 549).
LegacyPanelRendered ==
    ~legacy.loading /\ legacy.error = None /\ legacy.metrics # None

SkipCleanup(registered, timer) == timer

\* React runs the cleanup the previous run of the effect returned, before the
\* effect runs again: clearTimeout(timeoutRef.current) (part_001:141-145)
RunCleanup(registered, timer) == IF registered THEN None ELSE timer

\* handleFiltersChange -> setFilters(newFilters), a new object each time, and the
\* effect on [filters] that follows the render (part_001:120-150)
setFilters(newFilters) ==
    /\ dashboard = "legacy"
    /\ LegacyPanelRendered
    /\ LET afterCleanup  == RunCleanup(legacy.cleanup, legacy.timer)
           filtersString == JSONStringify(newFilters)
           same          == legacy.lastFiltersRef = filtersString
       IN  legacy' = [legacy EXCEPT
                        !.filters = newFilters,
                        !.previous = legacy.filters,
                        !.timer = IF same THEN afterCleanup
                                  ELSE Some([filters |-> newFilters, remaining |-> Debounce]),
                        !.cleanup = ~same,
                        !.sinceChange = 0]
    /\ UNCHANGED <<conversationsData, tzOffsetHours, dashboard, response, store, inflight>>

\* TickMs of time pass; a timer that is due fires first.
Tick ==
    /\ dashboard = "legacy"
    /\ IsSome(legacy.timer) \/ legacy.sinceChange < Debounce
    /\ IsSome(legacy.timer) => Get(legacy.timer).remaining > 0
    /\ legacy' = [legacy EXCEPT
                    !.timer = IF IsSome(@)
                              THEN Some([Get(@) EXCEPT !.remaining = @ - TickMs]) ELSE @,
                    !.sinceChange = IF @ + TickMs > Debounce THEN Debounce ELSE @ + TickMs]
    /\ UNCHANGED <<conversationsData, tzOffsetHours, dashboard, response, store, inflight>>

\* The timer's callback (part_001:134-137) and fetchMetrics up to its await
\* (part_001:87-111)
TimerFires ==
    /\ dashboard = "legacy"
    /\ IsSome(legacy.timer)
    /\ Get(legacy.timer).remaining = 0
    /\ LET filters == Get(legacy.timer).filters
       IN  legacy' = [legacy EXCEPT
                        !.lastFiltersRef = JSONStringify(filters),
                        !.timer = None,
                        !.requests = Append(@, filters),
                        !.loading = TRUE,
                        !.error = None]
    /\ UNCHANGED <<conversationsData, tzOffsetHours, dashboard, response, store, inflight>>

\* fetchMetrics after the response arrived (part_001:111-112, 115-117); the
\* server answers GET /api/metrics (index.js:162-171)
FetchResolve(i) ==
    /\ dashboard = "legacy"
    /\ i \in 1..Len(legacy.requests)
    /\ LET query == queryParams(legacy.requests[i])
       IN  /\ legacy' = [legacy EXCEPT
                           !.metrics = Some(calculateMetrics(
                               filterData(conversationsData, query, tzOffsetHours))),
                           !.loading = FALSE,
                           !.requests = RemoveAt(@, i)]
           /\ conversationsData' = DataAfterFilterData(conversationsData, query, tzOffsetHours)
    /\ UNCHANGED <<tzOffsetHours, dashboard, response, store, inflight>>

\* fetchMetrics after the request failed (part_001:113-117)
FetchReject(i) ==
    /\ dashboard = "legacy"
    /\ i \in 1..Len(legacy.requests)
    /\ legacy' = [legacy EXCEPT
                    !.error = Some("Failed to fetch metrics"),
                    !.loading = FALSE,
                    !.requests = RemoveAt(@, i)]
    /\ UNCHANGED <<conversationsData, tzOffsetHours, dashboard, response, store, inflight>>

-----------------------------------------------------------------------------

Init ==
    /\ conversationsData \in Collections
    /\ dashboard \in {"legacy", "store"}
    /\ tzOffsetHours \in (IF dashboard = "legacy" THEN TzOffsets ELSE {0})
    /\ response = NoResponse
    /\ store = InitialStore
    /\ inflight = 0
    /\ legacy = MountedDashboard

(* Server *)

\* app.get('/api/metrics') (index.js:162-172)
GetMetrics(filters) ==
    /\ dashboard = "legacy"
    /\ response = NoResponse
    /\ LET filteredData == filterData(conversationsData, filters, tzOffsetHours)
       IN  response' = [endpoint |-> "metrics", filters |-> filters,
                        filteredData |-> filteredData,
                        body |-> calculateMetrics(filteredData)]
    /\ conversationsData' = DataAfterFilterData(conversationsData, filters, tzOffsetHours)
    /\ UNCHANGED <<tzOffsetHours, dashboard, store, inflight, legacy>>

\* app.get('/api/agent-metrics') (index.js:174-184)
GetAgentMetrics(filters) ==
    /\ dashboard = "legacy"
    /\ response = NoResponse
    /\ LET filteredData == filterData(conversationsData, filters, tzOffsetHours)
       IN  response' = [endpoint |-> "agent-metrics", filters |-> filters,
                        filteredData |-> filteredData,
                        body |-> calculateAgentMetrics(filteredData)]
    /\ conversationsData' = DataAfterFilterData(conversationsData, filters, tzOffsetHours)
    /\ UNCHANGED <<tzOffsetHours, dashboard, store, inflight, legacy>>

\* The client takes the response off the wire; the server keeps nothing of it.
Deliver ==
    /\ response # NoResponse
    /\ response' = NoResponse
    /\ UNCHANGED <<conversationsData, tzOffsetHours, dashboard, store, inflight, legacy>>

(* Store *)

\* A snapshot the Conversation model accepts: status and callInfo.type are
\* enumerations (ConversationStore.ts:13, 26); push throws on any other value.
IsValidConversation(conv) ==
    conv.status \in Statuses /\ conv.callInfo.type \in CallTypes

AllValid(data) == \A i \in 1..Len(data) : IsValidConversation(data[i])

\* response.data.forEach(conv => self.conversations.push(conv)) (ConversationStore.ts:57-59):
\* the records pushed before the first one that push rejects
AcceptedPrefix(data) ==
    LET rejected == {i \in 1..Len(data) : ~IsValidConversation(data[i])}
    IN  IF rejected = {} THEN data
        ELSE SubSeq(data, 1, (CHOOSE i \in rejected : \A j \in rejected : i <= j) - 1)

NotCleared(conversations) == conversations

\* self.conversations.clear() (ConversationStore.ts:56)
Cleared(conversations) == <<>>

\* ConversationStore.ts:56-59; the flow does not undo what ran before a throw
ConversationsAfterResponse(conversations, data) ==
    Cleared(conversations) \o AcceptedPrefix(data)

\* loadConversations up to its yield (ConversationStore.ts:52-55)
LoadConversationsStart ==
    /\ dashboard = "store"
    /\ store' = [store EXCEPT !.loading = TRUE, !.error = None]
    /\ inflight' = inflight + 1
    /\ UNCHANGED <<conversationsData, tzOffsetHours, dashboard, response, legacy>>

\* loadConversations after the response arrived (ConversationStore.ts:56-59, 62-64);
\* GET /api/conversations answers with conversationsData (index.js:221-223)
LoadConversationsResolve ==
    /\ inflight > 0
    /\ store' = [store EXCEPT
                    !.conversations = ConversationsAfterResponse(@, conversationsData),
                    !.error = IF AllValid(conversationsData) THEN @
                              ELSE Some("Failed to load conversations"),
                    !.loading = FALSE]
    /\ inflight' = inflight - 1
    /\ UNCHANGED <<conversationsData, tzOffsetHours, dashboard, response, legacy>>

\* loadConversations after the request failed (ConversationStore.ts:60-64)
LoadConversationsReject ==
    /\ inflight > 0
    /\ store' = [store EXCEPT !.error = Some("Failed to load conversations"),
                              !.loading = FALSE]
    /\ inflight' = inflight - 1
    /\ UNCHANGED <<conversationsData, tzOffsetHours, dashboard, response, legacy>>

\* The filter panel is on screen only past the loading, error and no-data returns
\* of the dashboard (page.tsx:377-404).
PanelRendered ==
    /\ dashboard = "store"
    /\ ~store.loading
    /\ store.error = None
    /\ Len(store.conversations) > 0

\* Variant: a single bound is used for both ends of the range.
setDateRangeFromOneBound(start, end) ==
    /\ PanelRendered
    /\ store' = [store EXCEPT !.filters.dateRange =
                    IF IsSome(start) /\ IsSome(end)
                    THEN Some([start |-> Get(start), end |-> Get(end)])
                    ELSE IF IsSome(start) THEN Some([start |-> Get(start), end |-> Get(start)])
                    ELSE IF IsSome(end) THEN Some([start |-> Get(end), end |-> Get(end)])
                    ELSE None]
    /\ UNCHANGED <<conversationsData, tzOffsetHours, dashboard, response, inflight, legacy>>

\* ConversationStore.ts:68-74
setDateRange(start, end) ==
    /\ PanelRendered
    /\ store' = [store EXCEPT !.filters.dateRange =
                    IF IsSome(start) /\ IsSome(end)
                    THEN Some([start |-> Get(start), end |-> Get(end)])
                    ELSE None]
    /\ UNCHANGED <<conversationsData, tzOffsetHours, dashboard, response, inflight, legacy>>

\* ConversationStore.ts:76-78
setAgents(agents) ==
    /\ PanelRendered
    /\ store' = [store EXCEPT !.filters.agents = agents]
    /\ UNCHANGED <<conversationsData, tzOffsetHours, dashboard, response, inflight, legacy>>

\* ConversationStore.ts:80-82
setCallTypes(callTypes) ==
    /\ PanelRendered
    /\ store' = [store EXCEPT !.filters.callTypes = callTypes]
    /\ UNCHANGED <<conversationsData, tzOffsetHours, dashboard, response, inflight, legacy>>

\* ConversationStore.ts:84-86
setTimeRanges(timeRanges) ==
    /\ PanelRendered
    /\ store' = [store EXCEPT !.filters.timeRanges = timeRanges]
    /\ UNCHANGED <<conversationsData, tzOffsetHours, dashboard, response, inflight, legacy>>

\* ConversationStore.ts:88-93
clearFilters ==
    /\ PanelRendered
    /\ store' = [store EXCEPT !.filters = NoFilters]
    /\ UNCHANGED <<conversationsData, tzOffsetHours, dashboard, response, inflight, legacy>>

Next ==
    \/ \E filters \in Queries : GetMetrics(filters)
    \/ \E filters \in GroupingQueries : GetAgentMetrics(filters)
    \/ Deliver
    \/ inflight < MaxLoads /\ LoadConversationsStart
    \/ LoadConversationsResolve
    \/ LoadConversationsReject
    \/ \E d \in StoreDateArgs : setDateRange(d[1], d[2])
    \/ \E agents \in StoreAgentArgs : setAgents(agents)
    \/ \E callTypes \in StoreCallTypeArgs : setCallTypes(callTypes)
    \/ \E timeRanges \in StoreTimeRangeArgs : setTimeRanges(timeRanges)
    \/ clearFilters

Spec == Init /\ [][Next]_vars

-----------------------------------------------------------------------------
(* Store dashboard: the filter panel (FilterPanel) and handleFiltersChange *)

\* The civil date of a day counted from 1970-01-01 (the inverse of EpochDay).
CivilFromDays(z) ==
    LET shifted == z + 719468
        era == shifted \div 146097
        doe == shifted - era * 146097
        yoe == (doe - doe \div 1460 + doe \div 36524 - doe \div 146096) \div 365
        doy == doe - (365 * yoe + yoe \div 4 - yoe \div 100)
        mp  == (5 * doy + 2) \div 153
        d   == doy - (153 * mp + 2) \div 5 + 1
        m   == IF mp < 10 THEN mp + 3 ELSE mp - 9
    IN  DateString(IF m <= 2 THEN yoe + era * 400 + 1 ELSE yoe + era * 400, m, d)

\* dayjs(t).format('YYYY-MM-DD'): the calendar date of the instant in local time
FormatLocalDate(t, tz) == CivilFromDays((t + tz * MsPerHour) \div MsPerDay)

\* dayjs('YYYY-MM-DD'): 00:00:00.000 of that date in local time
ParseLocalDate(ds, tz) == StartOfDayUTC(ds) - tz * MsPerHour

\* Math.min(...timestamps), Math.max(...timestamps)
MinStartTime(convs) ==
    CHOOSE t \in {convs[i].startTime : i \in 1..Len(convs)} :
        \A i \in 1..Len(convs) : t <= convs[i].startTime
MaxStartTime(convs) ==
    CHOOSE t \in {convs[i].startTime : i \in 1..Len(convs)} :
        \A i \in 1..Len(convs) : t >= convs[i].startTime

\* The dateRange memo of the panel: null without conversations.
panelDateRange(self, tz) ==
    IF Len(self.conversations) = 0 THEN None
    ELSE Some([min |-> FormatLocalDate(MinStartTime(self.conversations), tz),
               max |-> FormatLocalDate(MaxStartTime(self.conversations), tz)])

\* The Filters object a handler of the panel builds: the dateRange of the two
\* pickers, and each list only when it is not empty.
PanelFilters(start, end, agents, callTypes, timeRanges, tz) ==
    [dateRange  |-> Some([start |-> FormatLocalDate(start, tz),
                          end   |-> FormatLocalDate(end, tz)]),
     agents     |-> IF Len(agents) > 0 THEN Some(agents) ELSE None,
     callTypes  |-> IF Len(callTypes) > 0 THEN Some(callTypes) ELSE None,
     timeRanges |-> IF Len(timeRanges) > 0 THEN Some(timeRanges) ELSE None]

\* handleFiltersChange of the dashboard: setDateRange always, the three list setters
\* only for a list that is present.
handleFiltersChange(self, newFilters) ==
    [self EXCEPT
        !.filters.dateRange  = newFilters.dateRange,
        !.filters.agents     = IF IsSome(newFilters.agents)
                               THEN Get(newFilters.agents) ELSE @,
        !.filters.callTypes  = IF IsSome(newFilters.callTypes)
                               THEN Get(newFilters.callTypes) ELSE @,
        !.filters.timeRanges = IF IsSome(newFilters.timeRanges)
                               THEN Get(newFilters.timeRanges) ELSE @]

\* The startDate and endDate of the pickers.  The sync effect sets them to
\* dayjs(currentFilters.dateRange.start / .end) whenever the store has a dateRange.
PickersSet == IsSome(store.filters.dateRange)
startDate == ParseLocalDate(Get(store.filters.dateRange).start, tzOffsetHours)
endDate == ParseLocalDate(Get(store.filters.dateRange).end, tzOffsetHours)

\* The initial-filters effect: once the conversations are there and the store has no
\* dateRange, send the full date range and nothing else.
PanelInitialise ==
    /\ PanelRendered
    /\ store.filters.dateRange = None
    /\ LET dateRange == Get(panelDateRange(store, tzOffsetHours))
           start == ParseLocalDate(dateRange.min, tzOffsetHours)
           end   == ParseLocalDate(dateRange.max, tzOffsetHours)
       IN  store' = handleFiltersChange(store,
                        PanelFilters(start, end, <<>>, <<>>, <<>>, tzOffsetHours))
    /\ UNCHANGED <<conversationsData, tzOffsetHours, dashboard, response, inflight, legacy>>

\* handleAgentChange: onAgentsChange, then the filters with the new agents
handleAgentChange(newAgents) ==
    /\ PanelRendered
    /\ LET changed == [store EXCEPT !.filters.agents = newAgents]
       IN  store' = IF PickersSet
                    THEN handleFiltersChange(changed,
                            PanelFilters(startDate, endDate, newAgents,
                                         store.filters.callTypes, store.filters.timeRanges,
                                         tzOffsetHours))
                    ELSE changed
    /\ UNCHANGED <<conversationsData, tzOffsetHours, dashboard, response, inflight, legacy>>

\* handleCallTypeChange
handleCallTypeChange(newCallTypes) ==
    /\ PanelRendered
    /\ LET changed == [store EXCEPT !.filters.callTypes = newCallTypes]
       IN  store' = IF PickersSet
                    THEN handleFiltersChange(changed,
                            PanelFilters(startDate, endDate, store.filters.agents,
                                         newCallTypes, store.filters.timeRanges,
                                         tzOffsetHours))
                    ELSE changed
    /\ UNCHANGED <<conversationsData, tzOffsetHours, dashboard, response, inflight, legacy>>

\* handleTimeRangeChange
handleTimeRangeChange(newTimeRanges) ==
    /\ PanelRendered
    /\ LET changed == [store EXCEPT !.filters.timeRanges = newTimeRanges]
       IN  store' = IF PickersSet
                    THEN handleFiltersChange(changed,
                            PanelFilters(startDate, endDate, store.filters.agents,
                                         store.filters.callTypes, newTimeRanges,
                                         tzOffsetHours))
                    ELSE changed
    /\ UNCHANGED <<conversationsData, tzOffsetHours, dashboard, response, inflight, legacy>>

\* handleDateChange with both pickers holding a date
handleDateChange(newStartDate, newEndDate) ==
    /\ PanelRendered
    /\ store' = handleFiltersChange(store,
                    PanelFilters(newStartDate, newEndDate, store.filters.agents,
                                 store.filters.callTypes, store.filters.timeRanges,
                                 tzOffsetHours))
    /\ UNCHANGED <<conversationsData, tzOffsetHours, dashboard, response, inflight, legacy>>

\* clearAllFilters: the three lists emptied, then the full date range sent
clearAllFilters ==
    /\ PanelRendered
    /\ LET dateRange == Get(panelDateRange(store, tzOffsetHours))
           start   == ParseLocalDate(dateRange.min, tzOffsetHours)
           end     == ParseLocalDate(dateRange.max, tzOffsetHours)
           emptied == [store EXCEPT !.filters.agents = <<>>, !.filters.callTypes = <<>>,
                                    !.filters.timeRanges = <<>>]
       IN  store' = handleFiltersChange(emptied,
                        PanelFilters(start, end, <<>>, <<>>, <<>>, tzOffsetHours))
    /\ UNCHANGED <<conversationsData, tzOffsetHours, dashboard, response, inflight, legacy>>

\* What the user picks in the panel.
PickedDates == { <<D1, D1>>, <<D1, D2>> }
PickedAgents == { <<>>, <<"a1">>, <<"a1", "a2">> }
PickedCallTypes == { <<>>, <<"inbound">> }
PickedTimeRanges == { <<>>, <<"short">>, <<"medium", "long">> }

PanelInit ==
    /\ conversationsData \in Collections
    /\ dashboard = "store"
    /\ tzOffsetHours \in TzOffsets
    /\ response = NoResponse
    /\ store = InitialStore
    /\ inflight = 0
    /\ legacy = MountedDashboard

PanelNext ==
    \/ inflight < MaxLoads /\ LoadConversationsStart
    \/ LoadConversationsResolve
    \/ LoadConversationsReject
    \/ PanelInitialise
    \/ \E newAgents \in PickedAgents : handleAgentChange(newAgents)
    \/ \E newCallTypes \in PickedCallTypes : handleCallTypeChange(newCallTypes)
    \/ \E newTimeRanges \in PickedTimeRanges : handleTimeRangeChange(newTimeRanges)
    \/ \E d \in PickedDates :
          handleDateChange(ParseLocalDate(d[1], tzOffsetHours),
                           ParseLocalDate(d[2], tzOffsetHours))
    \/ clearAllFilters

PanelSpec == PanelInit /\ [][PanelNext]_vars

-----------------------------------------------------------------------------
(* The store dashboard's loads: loadConversations called again while a call   *)
(* is in flight (the mount effect of page.tsx:58-61 runs once per mount), and *)
(* a server whose conversations.json holds a record the store's Conversation  *)
(* model rejects.                                                             *)

MaxOverlap == 2

\* status 'voicemail' is not in the enumeration of ConversationStore.ts:26
InvalidRecord == Rec("a1", At(D1, 12, 0, 0, 0), 60, 10, "voicemail", "inbound", None)

LoadSample ==
    { Rec("a1", At(D1, 0, 0, 0, 0),      60, 10, "success",  "inbound",  Some(Stats(400, 150, 3))),
      Rec("a2", At(D2, 0, 0, 0, 0),       0,  5, "dropped",  "inbound",  None),
      Rec("a2", At(D1, 23, 59, 59, 999), 300, 15, "busy",    "outbound", None) }

\* the server validates nothing of what it reads (index.js:15-22, 221-223)
LoadCollections ==
    { WithIds(s) : s \in SeqsUpTo(LoadSample \cup {InvalidRecord}, MaxRecords) }

LoadInit ==
    /\ conversationsData \in LoadCollections
    /\ dashboard = "store"
    /\ tzOffsetHours = 0
    /\ response = NoResponse
    /\ store = InitialStore
    /\ inflight = 0
    /\ legacy = MountedDashboard

\* The server is started again on another conversations.json (index.js:15-22);
\* the page in the browser keeps its store.
ServerRestart ==
    /\ inflight = 0
    /\ conversationsData' \in LoadCollections \ {conversationsData}
    /\ UNCHANGED <<tzOffsetHours, dashboard, response, store, inflight, legacy>>

LoadNext ==
    \/ inflight < MaxOverlap /\ LoadConversationsStart
    \/ LoadConversationsResolve
    \/ LoadConversationsReject
    \/ ServerRestart

LoadSpec == LoadInit /\ [][LoadNext]_vars

-----------------------------------------------------------------------------
(* The legacy dashboard in use: filters changed in the panel, time passing,  *)
(* responses arriving in any order.                                          *)

MaxPending == 2

LegacyCollections ==
    { WithIds(ScenarioA), WithIds(<<ScenarioA[1], ScenarioA[3]>>) }

\* What the panel sends: the full date range alone (its first message and Clear
\* All), or with a choice of agents.
LegacyFilterValues ==
    { LegacyFilters(Some([start |-> D1, end |-> D1]), a, None, None) :
        a \in {None, Some(<<"a1">>), Some(<<"a2">>)} }

LegacyInit ==
    /\ conversationsData \in LegacyCollections
    /\ dashboard = "legacy"
    /\ tzOffsetHours = 0
    /\ response = NoResponse
    /\ store = InitialStore
    /\ inflight = 0
    /\ legacy = MountedDashboard

LegacyNext ==
    \/ \E newFilters \in LegacyFilterValues : setFilters(newFilters)
    \/ Tick
    \/ Len(legacy.requests) < MaxPending /\ TimerFires
    \/ \E i \in 1..MaxPending : FetchResolve(i)
    \/ \E i \in 1..MaxPending : FetchReject(i)

LegacySpec == LegacyInit /\ [][LegacyNext]_vars

-----------------------------------------------------------------------------
(* Server: requests whose list keys arrive as arrays or as plain strings, over *)
(* records at the boundaries of the hour intervals                            *)

HourTimes == { At(D1, h, 30, 0, 0) : h \in {0, 1, 6, 7, 12, 13, 18, 23} }

HourRecords(agent) ==
    { Rec(agent, t, 60, 10, "success", ty, None) : t \in HourTimes, ty \in {"inbound"} }

RequestCollections ==
    { WithIds(<<r>>) : r \in HourRecords("a1") \cup HourRecords("a2") }
      \cup { WithIds(<<r1, r2>>) : r1 \in HourRecords("a1"), r2 \in HourRecords("a2") }

RequestAgents ==
    { None, Some(StringParam("a1")), Some(StringParam("a1,a2")),
      Some(ArrayParam(<<"a1", "a2">>)) }
RequestCallTypes == { None, Some(StringParam("inbound,outbound")) }
RequestTimeRanges ==
    { None, Some(StringParam("0-6")), Some(StringParam("0-6,18-24")),
      Some(ArrayParam(<<"0-6">>)), Some(ArrayParam(<<"6-12">>)),
      Some(ArrayParam(<<"12-18", "18-24">>)), Some(ArrayParam(<<"0-6", "18-24">>)) }

RequestQueries ==
    { Query(None, None, None, a, c, t) :
        a \in RequestAgents, c \in RequestCallTypes, t \in RequestTimeRanges }

RequestInit ==
    /\ conversationsData \in RequestCollections
    /\ dashboard = "legacy"
    /\ tzOffsetHours \in TzOffsets
    /\ response = NoResponse
    /\ store = InitialStore
    /\ inflight = 0
    /\ legacy = MountedDashboard

RequestNext ==
    \/ \E filters \in RequestQueries : GetMetrics(filters)
    \/ \E filters \in RequestQueries : GetAgentMetrics(filters)
    \/ Deliver

RequestSpec == RequestInit /\ [][RequestNext]_vars

-----------------------------------------------------------------------------
(* Vocabulary of the properties *)

RECURSIVE SumOver(_, _)
SumOver(f, S) ==
    IF S = {} THEN 0
    ELSE LET x == CHOOSE y \in S : TRUE IN f[x] + SumOver(f, S \ {x})

Responded == response.endpoint # "none"
MetricsResponded == response.endpoint = "metrics"
AgentMetricsResponded == response.endpoint = "agent-metrics"

\* A dimension of a query is active when filterData applies it.
DateActive(q) == IsSome(dateRangeStart(q)) /\ IsSome(dateRangeEnd(q))
ListActive(o) == IsSome(o) /\ HasLength(Get(o))
Values(o) == Range(ToArray(Get(o)))

EmptyQuery == Query(None, None, None, None, None, None)

\* The record is one of the elements of the sequence.
InSeq(r, s) == \E i \in 1..Len(s) : s[i] = r

\* sub keeps some of the elements of seq, in their order, none twice.
IsSubsequence(sub, seq) ==
    /\ \A k \in 1..Len(sub) : sub[k].id \in 1..Len(seq) /\ sub[k] = seq[sub[k].id]
    /\ \A k \in 1..(Len(sub) - 1) : sub[k].id < sub[k + 1].id

\* The UTC calendar day (days since 1970-01-01) an instant falls on.
UTCDay(t) == t \div MsPerDay

\* The record matches every active dimension of the query.
MatchesQuery(r, q, tz) ==
    /\ DateActive(q) =>
          /\ IsValidDate(Get(dateRangeStart(q))) /\ IsValidDate(Get(dateRangeEnd(q)))
          /\ UTCDay(r.startTime) >= EpochDay(Get(dateRangeStart(q)))
          /\ UTCDay(r.startTime) <= EpochDay(Get(dateRangeEnd(q)))
    /\ ListActive(q.agents) => r.agent \in Values(q.agents)
    /\ ListActive(q.callTypes) => r.callInfo.type \in Values(q.callTypes)
    /\ ListActive(q.timeRanges) =>
          \E range \in Values(q.timeRanges) :
              HourInRange(LocalHour(r.startTime, tz), range)

\* q2 is q1 with one more active list dimension, or with values removed from an
\* active list dimension that stays non-empty.
NarrowsList(o2, o1) ==
    /\ ListActive(o2)
    /\ o1 # o2
    /\ \/ ~ListActive(o1)
       \/ Values(o2) \subseteq Values(o1)

\* The queries that q narrows in exactly one dimension.
WiderQueries(q) ==
    (IF DateActive(q)
     THEN { [q EXCEPT !.flatStart = None, !.flatEnd = None, !.dateRange = None],
            [q EXCEPT !.flatEnd = None, !.dateRange = None] }
     ELSE {})
      \cup { [q EXCEPT !.agents = o] : o \in {o1 \in AgentQueries : NarrowsList(q.agents, o1)} }
      \cup { [q EXCEPT !.callTypes = o] :
                o \in {o1 \in CallTypeQueries : NarrowsList(q.callTypes, o1)} }
      \cup { [q EXCEPT !.timeRanges = o] :
                o \in {o1 \in TimeRangeQueries : NarrowsList(q.timeRanges, o1)} }

\* The same relation on the store's filters, whose lists are never absent.
StoreNarrowsList(l2, l1) ==
    /\ Len(l2) > 0
    /\ l1 # l2
    /\ Len(l1) = 0 \/ Range(l2) \subseteq Range(l1)

StoreWiderFilters(f) ==
    (IF IsSome(f.dateRange) THEN { [f EXCEPT !.dateRange = None] } ELSE {})
      \cup { [f EXCEPT !.agents = l] :
                l \in {l1 \in StoreAgentArgs : StoreNarrowsList(f.agents, l1)} }
      \cup { [f EXCEPT !.callTypes = l] :
                l \in {l1 \in StoreCallTypeArgs : StoreNarrowsList(f.callTypes, l1)} }
      \cup { [f EXCEPT !.timeRanges = l] :
                l \in {l1 \in StoreTimeRangeArgs : StoreNarrowsList(f.timeRanges, l1)} }

StoreLoaded == dashboard = "store" /\ Len(store.conversations) > 0

-----------------------------------------------------------------------------
(* Properties *)

\* C1: for every non-empty record set, each of the four outcome rates of the
\* server's calculateMetrics lies between 0 and 100 (0 and 1000 tenths).
C1_RatesWithinBounds ==
    (MetricsResponded /\ Len(response.filteredData) > 0) =>
        \A rate \in {"successRate", "transferRate", "abandonmentRate", "failureRate"} :
            response.body[rate] >= 0 /\ response.body[rate] <= 1000

\* C2: for every non-empty record set the four outcome rates add up to 100, within
\* the rounding of the four server fields (0.05 each) and exactly in the store.
C2_RatesSumTo100 ==
    /\ (MetricsResponded /\ Len(response.filteredData) > 0) =>
          LET sum == response.body.successRate + response.body.transferRate
                       + response.body.abandonmentRate + response.body.failureRate
          IN  sum >= 1000 - 2 /\ sum <= 1000 + 2
    /\ (StoreLoaded /\ Len(filteredConversations(store)) > 0) =>
          LET m == metrics(store)
          IN  FracEq(FracAdd(FracAdd(m.successRate, m.transferRate),
                             FracAdd(m.abandonmentRate, m.failureRate)),
                     Frac(100, 1))

\* C3: with no active dimension the filter returns every record in the original
\* order, on the server (filterData(R, {})) and in the store.
C3_NoFilterIdentity ==
    /\ (Responded /\ response.filters = EmptyQuery) =>
          response.filteredData = conversationsData
    /\ store.filters = NoFilters => filteredConversations(store) = store.conversations

C3_Witness ==
    /\ Responded
    /\ response.filters = EmptyQuery
    /\ Len(response.filteredData) >= 2

\* C4: a record is in the result of filterData exactly when it matches at least one
\* value of every active dimension; an absent or empty dimension excludes nothing.
C4_ExactlyTheMatchingRecords ==
    Responded =>
        \A i \in 1..Len(conversationsData) :
            InSeq(conversationsData[i], response.filteredData)
              <=> MatchesQuery(conversationsData[i], response.filters, tzOffsetHours)

C4_Witness ==
    /\ Responded
    /\ DateActive(response.filters)
    /\ response.filters.agents = Some(ArrayParam(<<>>))
    /\ ListActive(response.filters.callTypes)
    /\ Len(response.filteredData) = 1
    /\ Len(conversationsData) = 2
    /\ \E i \in 1..2 :
          /\ ~InSeq(conversationsData[i], response.filteredData)
          /\ conversationsData[i].callInfo.type \in Values(response.filters.callTypes)

\* C5: narrowing a filter (one more active dimension, or fewer values in an active
\* dimension) never adds a record, on the server and in the store.
C5_FilterMonotonicity ==
    /\ Responded =>
          LET narrow == Range(response.filteredData)
          IN  \A q1 \in WiderQueries(response.filters) :
                  narrow \subseteq Range(filterData(conversationsData, q1, tzOffsetHours))
    /\ StoreLoaded =>
          LET narrow == Range(filteredConversations(store))
          IN  \A f1 \in StoreWiderFilters(store.filters) :
                  narrow \subseteq Range(filteredConversations([store EXCEPT !.filters = f1]))

C5_Witness ==
    /\ StoreLoaded
    /\ \E f1 \in StoreWiderFilters(store.filters) :
          /\ Len(f1.timeRanges) > Len(store.filters.timeRanges)
          /\ Len(filteredConversations(store)) > 0
          /\ Len(filteredConversations([store EXCEPT !.filters = f1]))
               > Len(filteredConversations(store))

\* C6: the result of filterData is a subsequence of its input (order kept, no record
\* duplicated or invented) and the input collection is the same after the call.
C6_OrderPreservedInputUntouched ==
    /\ [](Responded => IsSubsequence(response.filteredData, conversationsData))
    /\ [][conversationsData' = conversationsData]_vars

C6_Witness ==
    /\ Responded
    /\ Len(response.filteredData) >= 2
    /\ Len(response.filteredData) < Len(conversationsData)

\* C7: aggregating an empty record set gives 0 for each of the 15 metric fields, in
\* the server's calculateMetrics and in the store's metrics view.
C7_EmptySetAllZero ==
    /\ (MetricsResponded /\ response.filteredData = <<>>) =>
          \A field \in DOMAIN response.body : response.body[field] = 0
    /\ filteredConversations(store) = <<>> =>
          LET m == metrics(store)
          IN  /\ \A field \in DOMAIN m \ {"totalCalls", "totalCost"} : m[field].num = 0
              /\ m.totalCalls = 0
              /\ m.totalCost = 0

C7_Witness ==
    /\ MetricsResponded
    /\ response.filteredData = <<>>
    /\ Len(conversationsData) > 0
    /\ Cardinality(DOMAIN response.body) = 15

\* C8: grouping by agent loses and duplicates nothing: every record is in exactly
\* one agent group and the totalCalls of the agents add up to the number of records,
\* in calculateAgentMetrics and in the charts modal.
C8_GroupingCompleteness ==
    /\ AgentMetricsResponded =>
          LET groups == groupByAgent(response.filteredData, EmptyObject)
          IN  /\ \A i \in 1..Len(response.filteredData) :
                    Cardinality({a \in DOMAIN groups :
                                    InSeq(response.filteredData[i], groups[a])}) = 1
              /\ SumOver([a \in DOMAIN response.body |-> response.body[a].totalCalls],
                         DOMAIN response.body) = Len(response.filteredData)
    /\ StoreLoaded =>
          LET filtered == filteredConversations(store)
              groups   == modalAgentGroups(filtered, EmptyObject)
          IN  /\ \A i \in 1..Len(filtered) :
                    Cardinality({a \in DOMAIN groups : InSeq(filtered[i], groups[a])}) = 1
              /\ LET totals == modalTotalCalls(store)
                  IN  SumOver(totals, DOMAIN totals) = Len(filtered)

C8_Witness ==
    /\ AgentMetricsResponded
    /\ Cardinality(DOMAIN response.body) = 2
    /\ Len(response.filteredData) >= 3

\* C9: the keys of calculateAgentMetrics(R) are exactly the agents occurring in R
\* (so every entry counts at least one call) and each value is calculateMetrics of
\* that agent's records alone.
C9_AgentMetricsPerAgent ==
    AgentMetricsResponded =>
        /\ DOMAIN response.body = {r.agent : r \in Range(response.filteredData)}
        /\ \A a \in DOMAIN response.body :
              /\ response.body[a].totalCalls >= 1
              /\ response.body[a] =
                    calculateMetrics(SelectSeq(response.filteredData,
                                               LAMBDA r : r.agent = a))

C9_Witness ==
    /\ AgentMetricsResponded
    /\ DOMAIN response.body = {"a1"}
    /\ "a2" \in {r.agent : r \in Range(conversationsData)}
    /\ response.body["a1"].totalCalls >= 2

\* C10: a dateRange with start = end = D keeps every record whose startTime is from
\* 00:00:00.000 to 23:59:59.999 UTC of D (23:59:59.000 among them) and drops a record
\* at 00:00:00.000 UTC of the following day.
C10_SingleDayInclusive ==
    ( /\ Responded
      /\ DateActive(response.filters)
      /\ dateRangeStart(response.filters) = dateRangeEnd(response.filters)
      /\ ~ListActive(response.filters.agents)
      /\ ~ListActive(response.filters.callTypes)
      /\ ~ListActive(response.filters.timeRanges) ) =>
        LET D == Get(dateRangeStart(response.filters))
        IN  \A i \in 1..Len(conversationsData) :
                LET r == conversationsData[i]
                IN  /\ ( /\ r.startTime >= At(D, 0, 0, 0, 0)
                         /\ r.startTime <= At(D, 23, 59, 59, 999) )
                       => InSeq(r, response.filteredData)
                    /\ r.startTime = At(D, 23, 59, 59, 0)
                       => InSeq(r, response.filteredData)
                    /\ r.startTime = At(D, 0, 0, 0, 0) + MsPerDay
                       => ~InSeq(r, response.filteredData)

C10_Witness ==
    /\ Responded
    /\ dateRangeStart(response.filters) = Some(D1)
    /\ dateRangeEnd(response.filters) = Some(D1)
    /\ Len(conversationsData) = 2
    /\ conversationsData[1].startTime = At(D1, 23, 59, 59, 0)
    /\ conversationsData[2].startTime = At(D2, 0, 0, 0, 0)
    /\ response.filteredData = <<conversationsData[1]>>

-----------------------------------------------------------------------------
(* Properties of the aggregation *)

HasStats(r) == IsSome(r.callInfo.stats)
CostOf(data) == SumSeq([i \in 1..Len(data) |-> data[i].cost])
DurationOf(data) == SumSeq([i \in 1..Len(data) |-> data[i].duration])
NumberOf(data, Test(_)) == Cardinality({i \in 1..Len(data) : Test(data[i])})

\* C11: a record without callInfo.stats is in neither the numerator nor the
\* denominator of avgInterruptions, avgLLMLatency and avgTTSLatency (the three are
\* what the records with stats give on their own), and it still counts in totalCalls
\* and totalCost, on the server and in the store.
C11_NoStatsLeftOut ==
    /\ MetricsResponded =>
          LET data  == response.filteredData
              alone == calculateMetrics(SelectSeq(data, HasStats))
          IN  /\ response.body.avgInterruptions = alone.avgInterruptions
              /\ response.body.avgLLMLatency = alone.avgLLMLatency
              /\ response.body.avgTTSLatency = alone.avgTTSLatency
              /\ response.body.totalCalls = Len(data)
              /\ response.body.totalCost = 100 * CostOf(data)
    /\ StoreLoaded =>
          LET filtered == filteredConversations(store)
              alone == metrics([store EXCEPT !.conversations = SelectSeq(filtered, HasStats),
                                             !.filters = NoFilters])
              m     == metrics(store)
          IN  /\ FracEq(m.avgInterruptions, alone.avgInterruptions)
              /\ FracEq(m.avgLLMLatency, alone.avgLLMLatency)
              /\ FracEq(m.avgTTSLatency, alone.avgTTSLatency)
              /\ m.totalCalls = Len(filtered)
              /\ m.totalCost = CostOf(filtered)

C11_Witness ==
    /\ MetricsResponded
    /\ Len(response.filteredData) = 2
    /\ HasStats(response.filteredData[1])
    /\ ~HasStats(response.filteredData[2])
    /\ response.filteredData[2].cost > 0
    /\ response.body.avgLLMLatency = 400
    /\ response.body.avgInterruptions = 300
    /\ response.body.totalCalls = 2

\* C12: for a non-empty record set every conditional denominator of calculateMetrics
\* has its own guard: avgCostPerMin and avgHandleTime are 0 when no record has
\* duration > 0, the four stats averages are 0 when no record has stats,
\* avgCostPerSuccessfulCall is 0 when no record is a success, and every field is a
\* number that is not negative.
C12_DenominatorsGuarded ==
    (MetricsResponded /\ Len(response.filteredData) > 0) =>
        LET data == response.filteredData
            body == response.body
        IN  /\ NumberOf(data, LAMBDA r : r.duration > 0) = 0 =>
                  body.avgCostPerMin = 0 /\ body.avgHandleTime = 0
            /\ NumberOf(data, HasStats) = 0 =>
                  /\ body.avgInterruptions = 0
                  /\ body.avgLLMLatency = 0
                  /\ body.avgTTSLatency = 0
                  /\ body.avgTotalLatency = 0
            /\ NumberOf(data, LAMBDA r : r.status = "success") = 0 =>
                  body.avgCostPerSuccessfulCall = 0
            /\ \A field \in DOMAIN body : body[field] \in Nat

C12_Witness ==
    /\ MetricsResponded
    /\ Len(response.filteredData) > 0
    /\ NumberOf(response.filteredData, LAMBDA r : r.duration > 0) = 0
    /\ NumberOf(response.filteredData, HasStats) = 0
    /\ NumberOf(response.filteredData, LAMBDA r : r.status = "success") = 0
    /\ response.body.totalCost > 0
    /\ response.body.avgCostPerMin = 0

\* C13: the server's avgHandleTime is the sum of the durations divided by the number
\* of records with duration > 0 (0 when there is none), rounded; the four records of
\* Scenario A (durations 60, 30, 0, 90) give 60.
C13_HandleTimeOverAnswered ==
    MetricsResponded =>
        LET data     == response.filteredData
            answered == NumberOf(data, LAMBDA r : r.duration > 0)
        IN  /\ response.body.avgHandleTime =
                  (IF answered = 0 THEN 0 ELSE RoundDiv(DurationOf(data), answered))
            /\ data = WithIds(ScenarioA) => response.body.avgHandleTime = 60

C13_Witness ==
    /\ MetricsResponded
    /\ response.filteredData = WithIds(ScenarioA)
    /\ response.body.avgHandleTime = 60

\* C14: in every result of calculateMetrics the field avgTotalLatency is the sum of
\* the fields avgLLMLatency and avgTTSLatency.
C14_TotalLatencyIsSumOfParts ==
    MetricsResponded =>
        response.body.avgTotalLatency
          = response.body.avgLLMLatency + response.body.avgTTSLatency

\* C15: firstCallResolutionRate equals successRate in every result, in the rounded
\* values of the server and in the store's metrics view.
C15_ResolutionRateIsSuccessRate ==
    /\ MetricsResponded =>
          response.body.firstCallResolutionRate = response.body.successRate
    /\ AgentMetricsResponded =>
          \A a \in DOMAIN response.body :
              response.body[a].firstCallResolutionRate = response.body[a].successRate
    /\ LET m == metrics(store)
       IN  FracEq(m.firstCallResolutionRate, m.successRate)

C15_Witness ==
    /\ StoreLoaded
    /\ Len(filteredConversations(store)) = 1
    /\ Len(store.conversations) = 2
    /\ \E i \in 1..2 : store.conversations[i].status # "success"
    /\ FracEq(metrics(store).firstCallResolutionRate, Frac(100, 1))

\* C16: requests to /api/metrics and /api/agent-metrics, in any order and with any
\* filters, never modify conversationsData, and every response is the aggregate of
\* filterData(conversationsData, the request's filters) and of nothing else, so the
\* same request always gets the same answer.
C16_RequestsIndependent ==
    /\ [](Responded =>
            LET alone == filterData(conversationsData, response.filters, tzOffsetHours)
            IN  response.body = (IF MetricsResponded
                                 THEN calculateMetrics(alone)
                                 ELSE calculateAgentMetrics(alone)))
    /\ [][conversationsData' = conversationsData /\ tzOffsetHours' = tzOffsetHours]_vars

C16_Witness ==
    /\ AgentMetricsResponded
    /\ DateActive(response.filters)
    /\ ListActive(response.filters.agents)
    /\ Len(response.filteredData) > 0
    /\ Len(response.filteredData) < Len(conversationsData)

\* C17: in the store a dateRange keeps every conversation whose startTime falls on a
\* UTC day from the start date to the end date, the whole end day included.
C17_StoreEndDayInclusive ==
    ( /\ StoreLoaded
      /\ IsSome(store.filters.dateRange)
      /\ store.filters.agents = <<>>
      /\ store.filters.callTypes = <<>>
      /\ store.filters.timeRanges = <<>> ) =>
        LET range == Get(store.filters.dateRange)
        IN  \A i \in 1..Len(store.conversations) :
                LET conv == store.conversations[i]
                IN  ( /\ UTCDay(conv.startTime) >= EpochDay(range.start)
                      /\ UTCDay(conv.startTime) <= EpochDay(range.end) )
                    => InSeq(conv, filteredConversations(store))

\* C18: once the conversations are loaded and the panel has sent the full date range
\* (start = the date of the earliest startTime, end = the date of the latest, no other
\* filter), by its initialisation or by Clear All, filteredConversations holds every
\* loaded conversation and totalCalls is their number.
C18_FullRangeShowsEverything ==
    ( /\ PanelRendered
      /\ IsSome(store.filters.dateRange)
      /\ Get(store.filters.dateRange).start = Get(panelDateRange(store, tzOffsetHours)).min
      /\ Get(store.filters.dateRange).end = Get(panelDateRange(store, tzOffsetHours)).max
      /\ store.filters.agents = <<>>
      /\ store.filters.callTypes = <<>>
      /\ store.filters.timeRanges = <<>> ) =>
        /\ filteredConversations(store) = store.conversations
        /\ metrics(store).totalCalls = Len(store.conversations)

\* C19: the store's avgHandleTime is the sum of the durations divided by the number of
\* filtered conversations with duration > 0 (0 when there is none), the unrounded
\* value of the server on the same records.
C19_StoreHandleTimeOverAnswered ==
    StoreLoaded =>
        LET filtered == filteredConversations(store)
            answered == NumberOf(filtered, LAMBDA r : r.duration > 0)
        IN  FracEq(metrics(store).avgHandleTime,
                   IF answered = 0 THEN Zero ELSE Frac(DurationOf(filtered), answered))

\* C20: on the same records the store's failureRate and abandonmentRate are the
\* server's, before rounding: the statuses are classified the same way.
C20_StoreClassifiesLikeServer ==
    (StoreLoaded /\ Len(filteredConversations(store)) > 0) =>
        LET filtered == filteredConversations(store)
            m        == metrics(store)
        IN  /\ FracEq(m.failureRate, Frac(failureCount(filtered) * 100, Len(filtered)))
            /\ FracEq(m.abandonmentRate,
                      Frac(Len(droppedCalls(filtered)) * 100, Len(filtered)))

-----------------------------------------------------------------------------
(* Properties of the filter tokens and of the request parameters *)

Buckets == {"short", "medium", "long"}
InBucket(duration, bucket) ==
    \/ bucket = "short" /\ duration < 120
    \/ bucket = "medium" /\ duration >= 120 /\ duration < 300
    \/ bucket = "long" /\ duration >= 300

\* The store's result with the timeRanges filter taken away, or replaced.
StoreWithTimeRanges(timeRanges) ==
    filteredConversations([store EXCEPT !.filters.timeRanges = timeRanges])

\* C21: in the store a timeRanges token other than short, medium and long matches no
\* conversation: a list of such tokens only gives an empty result, and such a token
\* beside valid buckets adds nothing to what the valid buckets give.
C21_UnknownTokenMatchesNothing ==
    (StoreLoaded /\ Len(store.filters.timeRanges) > 0) =>
        LET known == SelectSeq(store.filters.timeRanges, LAMBDA token : token \in Buckets)
        IN  known # store.filters.timeRanges =>
                filteredConversations(store)
                  = (IF known = <<>> THEN <<>> ELSE StoreWithTimeRanges(known))

HourTokens == {"0-6", "6-12", "12-18", "18-24"}
LowerHour(token) ==
    CASE token = "0-6" -> 0 [] token = "6-12" -> 6 [] token = "12-18" -> 12
      [] token = "18-24" -> 18
UpperHour(token) ==
    CASE token = "0-6" -> 6 [] token = "6-12" -> 12 [] token = "12-18" -> 18
      [] token = "18-24" -> 24

C24_DateNeedsBothBounds ==
    /\ []( ( /\ Responded
             /\ IsSome(dateRangeStart(response.filters))
                  # IsSome(dateRangeEnd(response.filters)) ) =>
           response.filteredData
             = filterData(conversationsData,
                          [response.filters EXCEPT !.flatStart = None, !.flatEnd = None,
                                                   !.dateRange = None],
                          tzOffsetHours) )
    /\ [][ \A d \in StoreDateArgs :
             (setDateRange(d[1], d[2]) /\ ~(IsSome(d[1]) /\ IsSome(d[2])))
               => store'.filters.dateRange = None ]_vars

C24_Witness ==
    /\ Responded
    /\ response.filters.flatStart = Some(D1)
    /\ dateRangeEnd(response.filters) = None
    /\ ~ListActive(response.filters.agents)
    /\ ~ListActive(response.filters.callTypes)
    /\ ~ListActive(response.filters.timeRanges)
    /\ Len(response.filteredData) = 2
    /\ response.filteredData[1].startTime < StartOfDayUTC(D1)

\* What a comma-separated string lists.
CommaSeparated(text) ==
    CASE text = "a1,a2" -> <<"a1", "a2">>
      [] text = "inbound,outbound" -> <<"inbound", "outbound">>
      [] text = "0-6,18-24" -> <<"0-6", "18-24">>
      [] OTHER -> <<text>>
AsList(o) ==
    IF IsSome(o) /\ ~Get(o).isArray THEN Some(ArrayParam(CommaSeparated(Get(o).text))) ELSE o

\* C25: filterData gives for a comma-separated string in agents, callTypes or
\* timeRanges what it gives for the array of the values the string lists.
C25_CommaStringLikeArray ==
    Responded =>
        response.filteredData
          = filterData(conversationsData,
                       [response.filters EXCEPT !.agents = AsList(@),
                                                !.callTypes = AsList(@),
                                                !.timeRanges = AsList(@)],
                       tzOffsetHours)

-----------------------------------------------------------------------------
(* Properties of loadConversations *)

\* C26: loading is true in every state in which a loadConversations request is
\* still in flight, also when two calls overlap and one of them finishes first,
\* and false once no request is in flight.
C26_LoadingWhileInFlight ==
    /\ inflight > 0 => store.loading
    /\ inflight = 0 => ~store.loading

\* C27: a loadConversations call that fails (the request rejects, or a record
\* of the response is rejected while being inserted) sets the error to a
\* 'Failed to load conversations' message and leaves the conversations
\* collection as it was.
C27_FailedLoadKeepsConversations ==
    [][(LoadConversationsReject \/ (LoadConversationsResolve /\ ~AllValid(conversationsData)))
          => /\ store'.error = Some("Failed to load conversations")
             /\ store'.conversations = store.conversations]_vars

NoIdTwice(convs) ==
    \A i, j \in 1..Len(convs) : convs[i].id = convs[j].id => i = j

\* C28: when every response is valid, a load that resolves leaves the
\* collection equal to the data of its response, whatever the collection held
\* and however many calls overlap; the collection is at all times empty or the
\* data of one response, and no record appears in it twice.
C28_LastResponseReplaces ==
    /\ [](/\ store.conversations \in {<<>>} \cup {AcceptedPrefix(d) : d \in LoadCollections}
          /\ NoIdTwice(store.conversations))
    /\ [][(LoadConversationsResolve /\ AllValid(conversationsData))
             => store'.conversations = conversationsData]_vars

\* One of two overlapping calls has resolved (loading was cleared while a call
\* is in flight) and replaced the data of an earlier server start.
C28_Witness ==
    /\ inflight = 1
    /\ ~store.loading
    /\ store.error = None
    /\ AllValid(conversationsData)
    /\ Len(conversationsData) >= 2
    /\ store.conversations = conversationsData

-----------------------------------------------------------------------------
(* Properties of the legacy dashboard *)

\* The body of GET /api/metrics for a filters object of the dashboard.
ServerMetrics(filters) ==
    calculateMetrics(filterData(conversationsData, queryParams(filters), tzOffsetHours))

\* No filter change is pending, no request is in flight and none has failed.
Settled ==
    /\ legacy.timer = None
    /\ legacy.requests = <<>>
    /\ legacy.error = None
    /\ legacy.metrics # None

\* C29: once no filter change is pending and every fetchMetrics request has
\* completed successfully, the displayed metrics are the server's metrics for
\* the current filters; loading is not cleared while a request is in flight.
C29_DisplayedMetricsAreCurrent ==
    /\ Settled => Get(legacy.metrics) = ServerMetrics(legacy.filters)
    /\ legacy.requests # <<>> => legacy.loading

\* A second value was fetched after the first: the metrics on screen are those
\* of a choice of agents, which differ from the metrics of all records.
C29_Witness ==
    /\ Settled
    /\ IsSome(legacy.filters.agents)
    /\ legacy.lastFiltersRef = JSONStringify(legacy.filters)
    /\ Get(legacy.metrics) = ServerMetrics(legacy.filters)
    /\ Get(legacy.metrics) # ServerMetrics(EmptyFilters)

\* C30: a timer is pending exactly when the current filters differ, as JSON,
\* from the last fetched ones; it carries the current filters and is due
\* Debounce after the last change.  A fetchMetrics call is issued only by that
\* timer, Debounce after the last change, with the last filter value, and
\* leaves no timer behind: one call per burst, none when the burst ends on the
\* last fetched value.
C30_OneCallPerBurst ==
    /\ [](/\ IsSome(legacy.timer) <=> legacy.lastFiltersRef # JSONStringify(legacy.filters)
          /\ IsSome(legacy.timer) =>
                /\ Get(legacy.timer).filters = legacy.filters
                /\ Get(legacy.timer).remaining = Debounce - legacy.sinceChange)
    /\ [][legacy'.requests # legacy.requests /\ Len(legacy'.requests) >= Len(legacy.requests)
            => /\ legacy'.requests = Append(legacy.requests, legacy.filters)
               /\ legacy.sinceChange = Debounce
               /\ legacy.lastFiltersRef # JSONStringify(legacy.filters)
               /\ legacy'.lastFiltersRef = JSONStringify(legacy.filters)
               /\ legacy'.timer = None]_vars

\* A -> B -> A: the filters were changed back to the last fetched value less
\* than Debounce ago, from a value that was never fetched; no timer is left.
C30_Witness ==
    /\ legacy.sinceChange < Debounce
    /\ legacy.previous # legacy.filters
    /\ legacy.previous # EmptyFilters
    /\ legacy.lastFiltersRef = JSONStringify(legacy.filters)
    /\ legacy.timer = None
    /\ legacy.requests = <<>>

====
